---- MODULE Spec2Model ----
(***************************************************************************)
(* A model of bot.py: the Storage class over the user_cards table, the     *)
(* status parser and fetcher, the four command handlers and main().        *)
(*                                                                         *)
(* Representation.  A Python str that the code inspects character by       *)
(* character (a command argument, a card number) is a sequence of          *)
(* one-character tokens; "sup2" stands for U+00B2, a non-ASCII character   *)
(* for which str.isdigit() is True.  A text sent to the user is the        *)
(* sequence of its lines and a line is a pair <<fixed part, formatted      *)
(* value>>.  The Russian literals of the source are written in Latin       *)
(* transliteration, since the module is ASCII.                             *)
(***************************************************************************)
EXTENDS Integers, Sequences, FiniteSets, TLC

\* Bounds of the model.
MaxArgs == 2
NumUsers == 2
NumProcs == 2

\* Telegram user ids used in the model.
Users == 1..NumUsers
\* update.effective_user is None
NoUser == 0

None == <<"None">>

VARIABLES
    mainPc,      \* position of main(): "start", "polling", "failed"
    storage,     \* the module-level handle: "None" or "Storage"
    user_cards,  \* committed rows of table user_cards
    last,        \* the last handler invocation: its inputs and what it did
    pc,          \* per concurrent Storage caller: "idle", "execute", "commit"
    call,        \* per caller: the arguments of its set_user_card call
    writer,      \* the caller holding SQLite's write lock, or 0
    txn,         \* per caller: the table as its open transaction sees it
    lastSet,     \* history: per user, card of the latest completed set_user_card
    upstream,    \* the upstream's answer handed to the fetcher
    fetched,     \* outcome of fetch_card_status on upstream
    parsed       \* outcome of parse_status_response on the decoded body

vars == <<mainPc, storage, user_cards, last, pc, call, writer, txn, lastSet,
          upstream, fetched, parsed>>
botVars == <<mainPc, storage, last>>
storeVars == <<pc, call, writer, txn, lastSet>>
parseVars == <<upstream, fetched, parsed>>

----------------------------------------------------------------------------
(* Strings *)

\* Characters c with c.isdigit(): the ASCII digits and, e.g., U+00B2.
DigitChars == {"0", "1", "2", "3", "4", "5", "6", "7", "8", "9", "sup2"}
\* Characters removed by str.strip().
Whitespace == {" ", "\t", "\n"}

\* "".join(args)
RECURSIVE Join(_)
Join(args) == IF args = <<>> THEN <<>> ELSE Head(args) \o Join(Tail(args))

RECURSIVE LStrip(_)
LStrip(s) == IF s # <<>> /\ Head(s) \in Whitespace THEN LStrip(Tail(s)) ELSE s

RECURSIVE RStrip(_)
RStrip(s) ==
    IF s # <<>> /\ s[Len(s)] \in Whitespace
    THEN RStrip(SubSeq(s, 1, Len(s) - 1)) ELSE s

\* s.strip()
Strip(s) == RStrip(LStrip(s))

\* faulty variant: no validation of the card number
IsDigitAlways(s) == TRUE

\* s.isdigit(): non-empty and every character a digit
IsDigit(s) == s # <<>> /\ \A i \in 1..Len(s) : s[i] \in DigitChars

\* str of a character sequence, for use inside an f-string
RECURSIVE Text(_)
Text(s) == IF s = <<>> THEN "" ELSE Head(s) \o Text(Tail(s))

----------------------------------------------------------------------------
(* Storage *)

Row(u, c) == [user_id |-> u, card_number |-> c]

\* faulty variant: a plain INSERT, no ON CONFLICT clause
InsertOnly(rows, u, c) == rows \cup {Row(u, c)}

\* faulty variant: the table is emptied before the row is written
DeleteAllThenInsert(rows, u, c) == {Row(u, c)}

\* INSERT ... ON CONFLICT(user_id) DO UPDATE SET card_number = excluded.card_number
Upsert(rows, u, c) == {r \in rows : r.user_id # u} \cup {Row(u, c)}

\* Storage.set_user_card, as one step: the table after the call
set_user_card(rows, u, c) == Upsert(rows, u, c)

\* SELECT card_number FROM user_cards WHERE user_id = ? ... fetchone()
get_user_card(rows, u) ==
    IF \A r \in rows : r.user_id # u
    THEN None
    ELSE (CHOOSE r \in rows : r.user_id = u).card_number

----------------------------------------------------------------------------
(* Decoded JSON values and Python's treatment of them *)

JNull == [type |-> "null", val |-> "None"]
JBool(b) == [type |-> "bool", val |-> b]
JInt(n) == [type |-> "int", val |-> n]
\* a float that is not finite: "inf" (e.g. the JSON number 1e400) or "nan"
JFloat(f) == [type |-> "float", val |-> f]
JStr(s) == [type |-> "str", val |-> s]
\* a JSON array, by its elements' text
JList(l) == [type |-> "list", val |-> l]
\* a JSON object: a function from its keys to values
JDict(f) == [type |-> "dict", val |-> f]
EmptyDict == JDict([k \in {} |-> JNull])

\* bool(v)
Truthy(v) ==
    CASE v.type = "null" -> FALSE
      [] v.type = "bool" -> v.val
      [] v.type = "int" -> v.val # 0
      [] v.type = "float" -> TRUE
      [] v.type = "str" -> v.val # ""
      [] v.type = "list" -> v.val # <<>>
      [] v.type = "dict" -> DOMAIN v.val # {}

\* a or b
PyOr(a, b) == IF Truthy(a) THEN a ELSE b

\* d.get(k): None for a missing key, and None again for a key holding null
Get(d, k) == IF k \in DOMAIN d.val THEN d.val[k] ELSE JNull

\* f"{v}"
Str(v) ==
    CASE v.type = "null" -> "None"
      [] v.type = "bool" -> IF v.val THEN "True" ELSE "False"
      [] v.type = "int" -> ToString(v.val)
      [] v.type = "float" -> v.val
      [] v.type = "str" -> v.val
      [] v.type = "list" -> IF v.val = <<>> THEN "[]" ELSE "[...]"
      [] v.type = "dict" -> IF DOMAIN v.val = {} THEN "{}" ELSE "{...}"

\* the int behind a bool or an int (bool is a subclass of int)
IntOf(v) == IF v.type = "bool" THEN (IF v.val THEN 1 ELSE 0) ELSE v.val

Abs(n) == IF n < 0 THEN 0 - n ELSE n

\* f"{n / 100:.2f}" for an int n
Fixed2(n) ==
    (IF n < 0 THEN "-" ELSE "")
        \o ToString(Abs(n) \div 100) \o "."
        \o ToString((Abs(n) % 100) \div 10) \o ToString(Abs(n) % 10)

----------------------------------------------------------------------------
(* Outcomes of a call: a returned value or a raised exception, the latter  *)
(* by the classes it is an instance of and its message.                    *)

Return(v) == [kind |-> "return", value |-> v]
Raise(classes, msg) == [kind |-> "raise", classes |-> classes, msg |-> msg]

ValueError == {"ValueError"}
OverflowError == {"OverflowError", "ArithmeticError"}
HTTPError == {"HTTPError", "RequestException"}
ConnectionError == {"ConnectionError", "RequestException"}
\* requests >= 2.27: requests.exceptions.JSONDecodeError(InvalidJSONError,
\* json.JSONDecodeError); older releases let the json module's ValueError out
JSONDecodeErrorNew == {"JSONDecodeError", "RequestException", "ValueError"}
JSONDecodeErrorOld == {"JSONDecodeError", "ValueError"}
OperationalError == {"OperationalError", "sqlite3.Error"}

----------------------------------------------------------------------------
(* parse_status_response *)

Header == <<"Informaciya po karte:", "">>
NoFieldsLine ==
    <<"API ne vernulo ozhidaemye polya (balance/cardactive/cardblocked).", "">>
BalanceLabel == "Balans: "
ActiveLabel == "Karta aktivna: "
BlockedLabel == "Karta zablokirovana: "
TripsLabel == "Poezdok: "
Fields == {"balance", "cardactive", "cardblocked", "numoftrips"}

\* data.get("card") if isinstance(data.get("card"), dict) else data
SelectCard(d) ==
    IF Get(d, "card").type = "dict" THEN Get(d, "card") ELSE d

IsNumber(v) == v.type \in {"int", "bool", "float"}

BalanceLines(balance_raw) ==
    IF IsNumber(balance_raw)
    THEN <<<<BalanceLabel,
             Fixed2(IntOf(balance_raw)) \o " rub. ("
                 \o ToString(IntOf(balance_raw)) \o " kop.)">>>>
    ELSE IF balance_raw.type # "null"
         THEN <<<<BalanceLabel, Str(balance_raw)>>>>
         ELSE <<>>

YesNo(v) == IF Truthy(v) THEN "da" ELSE "net"

FlagLines(label, v) == IF v.type # "null" THEN <<<<label, YesNo(v)>>>> ELSE <<>>

TripsLines(trips) ==
    IF trips.type # "null" THEN <<<<TripsLabel, Str(trips)>>>> ELSE <<>>

\* lines, before the final check of len(lines) == 1
FieldLines(card) ==
    <<Header>>
        \o BalanceLines(Get(card, "balance"))
        \o FlagLines(ActiveLabel, Get(card, "cardactive"))
        \o FlagLines(BlockedLabel, Get(card, "cardblocked"))
        \o TripsLines(Get(card, "numoftrips"))

\* faulty variant: only the balance line is looked for
NeedsNoFieldsLineIfNoBalance(lines) ==
    \A i \in 1..Len(lines) : lines[i][1] # BalanceLabel

\* len(lines) == 1
NeedsNoFieldsLine(lines) == Len(lines) = 1

parse_status_response(d) ==
    IF d.type # "dict"
    THEN Raise(ValueError, "Nepredvidennyj format otveta API")
    ELSE LET card == SelectCard(d)
             balance_raw == Get(card, "balance")
             lines == FieldLines(card)
         IN  IF balance_raw.type = "float" /\ balance_raw.val = "nan"
             THEN Raise(ValueError, "cannot convert float NaN to integer")
             ELSE IF balance_raw.type = "float"
             THEN Raise(OverflowError, "cannot convert float infinity to integer")
             ELSE IF NeedsNoFieldsLine(lines)
             THEN Return(lines \o <<NoFieldsLine>>)
             ELSE Return(lines)

----------------------------------------------------------------------------
(* fetch_card_status *)

\* What the upstream does with one GET: ok is FALSE when requests.get raises
\* (no connection, timeout); otherwise the status code and the body, which
\* response.json() decodes to value unless decodes is FALSE.  newRequests
\* tells whether the installed requests release is 2.27 or later.
Response(ok, status, decodes, newRequests, value) ==
    [ok |-> ok, status |-> status, decodes |-> decodes,
     newRequests |-> newRequests, value |-> value]

ApiErrorLabel == "Oshibka API: "

\* faulty variant: "message" is looked at before "error"
ErrorFieldMessageFirst(d) == PyOr(Get(d, "message"), Get(d, "error"))

\* data.get("error") or data.get("message")
ErrorField(d) == PyOr(Get(d, "error"), Get(d, "message"))

fetch_card_status(resp) ==
    IF ~resp.ok
    THEN Raise(ConnectionError, "connection failed")
    ELSE IF resp.status >= 400 /\ resp.status < 600
    THEN Raise(HTTPError, ToString(resp.status) \o " Error")
    ELSE IF ~resp.decodes
    THEN Raise(IF resp.newRequests THEN JSONDecodeErrorNew ELSE JSONDecodeErrorOld,
               "Expecting value")
    ELSE IF resp.value.type = "dict" /\ Truthy(ErrorField(resp.value))
    THEN Return(<<<<ApiErrorLabel, Str(ErrorField(resp.value))>>>>)
    ELSE parse_status_response(resp.value)

----------------------------------------------------------------------------
(* Texts sent to the user, and what a handler leaves behind *)

HelpText ==
    <<<<"Privet. Ya bot dlya proverki balansa Strelki.", "">>,
      <<"", "">>,
      <<"Komandy:", "">>,
      <<"/setcard <nomer_karty> - sohranit' nomer karty", "">>,
      <<"/card - pokazat' sohranennyj nomer", "">>,
      <<"/balance - zaprosit' balans karty", "">> >>
UsageText == <<<<"Ispol'zovanie: /setcard <nomer_karty>", "">>>>
DigitsOnlyText == <<<<"Nomer karty dolzhen soderzhat' tol'ko cifry.", "">>>>
NoUserText == <<<<"Ne udalos' opredelit' pol'zovatelya.", "">>>>
NoStorageText == <<<<"Hranilishche ne inicializirovano.", "">>>>
NotSavedText ==
    <<<<"Karta ne sohranena. Snachala vypolnite /setcard <nomer_karty>", "">>>>
QueryingText == <<<<"Zaprashivayu dannye po karte...", "">>>>
SavedLabel == "Karta sohranena: "
StoredLabel == "Sohranennaya karta: "
HttpErrorLabel == "Oshibka HTTP: "
RequestErrorLabel == "Oshibka zaprosa: "
FormatErrorLabel == "Oshibka formata otveta: "

\* await update.message.reply_text(text)
Reply(text) == <<"reply", text>>
\* requests.get(STRELKA_STATUS_URL, params={"cardnum": card_number, ...})
HttpGet(card_number) == <<"GET", card_number>>

\* What one handler invocation did: the replies and requests in order, the
\* exception that left the handler (the empty set when it returned), and the
\* table afterwards.
Ran(events, raised, rows) == [events |-> events, raised |-> raised, rows |-> rows]

NoException == {}

\* if not card_number
Falsy(card_number) == card_number = None \/ card_number = <<>>

----------------------------------------------------------------------------
(* The command handlers.  hasMessage: update.message is not None (it is    *)
(* None for an edited message, which a CommandHandler also passes on).     *)
(* user: update.effective_user's id, or NoUser.  dbFail: the sqlite3 call  *)
(* of this invocation raises OperationalError (file locked or unreadable). *)

start(hasMessage, rows) ==
    IF ~hasMessage THEN Ran(<<>>, NoException, rows)
    ELSE Ran(<<Reply(HelpText)>>, NoException, rows)

set_card(hasMessage, args, user, dbFail, st, rows) ==
    LET card_number == Strip(Join(args)) IN
    IF ~hasMessage THEN Ran(<<>>, NoException, rows)
    ELSE IF args = <<>> THEN Ran(<<Reply(UsageText)>>, NoException, rows)
    ELSE IF ~IsDigit(card_number)
    THEN Ran(<<Reply(DigitsOnlyText)>>, NoException, rows)
    ELSE IF user = NoUser THEN Ran(<<Reply(NoUserText)>>, NoException, rows)
    ELSE IF st = "None" THEN Ran(<<Reply(NoStorageText)>>, NoException, rows)
    ELSE IF dbFail THEN Ran(<<>>, OperationalError, rows)
    ELSE Ran(<<Reply(<<<<SavedLabel, Text(card_number)>>>>)>>, NoException,
             set_user_card(rows, user, card_number))

show_card(hasMessage, user, dbFail, st, rows) ==
    LET card_number == get_user_card(rows, user) IN
    IF ~hasMessage THEN Ran(<<>>, NoException, rows)
    ELSE IF user = NoUser THEN Ran(<<Reply(NoUserText)>>, NoException, rows)
    ELSE IF st = "None" THEN Ran(<<Reply(NoStorageText)>>, NoException, rows)
    ELSE IF dbFail THEN Ran(<<>>, OperationalError, rows)
    ELSE IF Falsy(card_number) THEN Ran(<<Reply(NotSavedText)>>, NoException, rows)
    ELSE Ran(<<Reply(<<<<StoredLabel, Text(card_number)>>>>)>>, NoException, rows)

\* The except clauses of balance in their order; "" when none matches.
ExceptClause(classes) ==
    IF "HTTPError" \in classes THEN HttpErrorLabel
    ELSE IF "RequestException" \in classes THEN RequestErrorLabel
    ELSE IF "ValueError" \in classes THEN FormatErrorLabel
    ELSE ""

\* balance from "Zaprashivayu dannye po karte..." on
FetchAndReport(card_number, resp, rows) ==
    LET r == fetch_card_status(resp)
        before == <<Reply(QueryingText), HttpGet(card_number)>>
    IN  IF r.kind = "return"
        THEN Ran(before \o <<Reply(r.value)>>, NoException, rows)
        ELSE IF ExceptClause(r.classes) # ""
        THEN Ran(before \o <<Reply(<<<<ExceptClause(r.classes), r.msg>>>>)>>,
                 NoException, rows)
        ELSE Ran(before, r.classes, rows)

balance(hasMessage, user, dbFail, resp, st, rows) ==
    LET card_number == get_user_card(rows, user) IN
    IF ~hasMessage THEN Ran(<<>>, NoException, rows)
    ELSE IF user = NoUser THEN Ran(<<Reply(NoUserText)>>, NoException, rows)
    ELSE IF st = "None" THEN Ran(<<Reply(NoStorageText)>>, NoException, rows)
    ELSE IF dbFail THEN Ran(<<>>, OperationalError, rows)
    ELSE IF Falsy(card_number) THEN Ran(<<Reply(NotSavedText)>>, NoException, rows)
    ELSE FetchAndReport(card_number, resp, rows)

----------------------------------------------------------------------------
(* Inputs *)

\* context.args: message.text.split()[1:], so no argument is empty or holds
\* whitespace
ArgTokens == {<<"7", "sup2">>, <<"4", "a">>}
ArgLists == UNION {[1..n -> ArgTokens] : n \in 0..MaxArgs}

\* An update as far as the handlers look at it, with the fate of the sqlite3
\* call it leads to: a message of a user (the call works or raises), a
\* message without a sender, and an edited message.
Update(hasMessage, user, dbFail) ==
    [hasMessage |-> hasMessage, user |-> user, dbFail |-> dbFail]
Updates ==
    {Update(TRUE, u, f) : u \in Users, f \in BOOLEAN}
        \cup {Update(TRUE, NoUser, FALSE), Update(FALSE, 1, FALSE)}

Absent == [type |-> "absent", val |-> ""]

\* the JSON object with the given <<key, value>> pairs, Absent ones left out
DictOf(pairs) ==
    LET present == {q \in pairs : q[2].type # "absent"}
    IN  JDict([k \in {q[1] : q \in present} |->
                  (CHOOSE q \in present : q[1] = k)[2]])

Ok200(value) == Response(TRUE, 200, TRUE, TRUE, value)
NoResponse == Response(FALSE, 0, FALSE, FALSE, JNull)

FullCard ==
    DictOf({<<"balance", JInt(12345)>>, <<"cardactive", JBool(TRUE)>>,
            <<"cardblocked", JBool(FALSE)>>, <<"numoftrips", JInt(7)>>})

\* upstream answers tried by the bot
BotResponses ==
    { Response(FALSE, 0, FALSE, TRUE, JNull),
      Response(TRUE, 404, FALSE, TRUE, JNull),
      Response(TRUE, 304, FALSE, TRUE, JNull),
      Response(TRUE, 200, FALSE, TRUE, JNull),
      Response(TRUE, 200, FALSE, FALSE, JNull),
      Ok200(JList(<<>>)),
      Ok200(DictOf({<<"card", FullCard>>})),
      Ok200(DictOf({<<"balance", JInt(0)>>})),
      Ok200(EmptyDict),
      Ok200(DictOf({<<"error", JStr("card not found")>>})),
      Ok200(DictOf({<<"balance", JFloat("inf")>>})),
      Ok200(DictOf({<<"balance", JFloat("nan")>>})) }

----------------------------------------------------------------------------
(* The bot: main() and the handlers, one update at a time (an Application  *)
(* built without concurrent_updates handles updates sequentially, and no   *)
(* handler awaits between its storage call and its reply being composed).  *)

\* The record of one invocation: the update and the environment it met
\* (dbFail, resp), the table before it, and what it did.
Invocation(cmd, hasMessage, user, args, dbFail, resp, before, ran) ==
    [cmd |-> cmd, hasMessage |-> hasMessage, user |-> user, args |-> args,
     dbFail |-> dbFail, resp |-> resp, before |-> before,
     events |-> ran.events, raised |-> ran.raised]

NoRun == Invocation("none", FALSE, NoUser, <<>>, FALSE, NoResponse, {},
                    Ran(<<>>, NoException, {}))

NoCall == [user |-> NoUser, card |-> None]

IdleStore ==
    /\ pc = [p \in 1..NumProcs |-> "idle"]
    /\ call = [p \in 1..NumProcs |-> NoCall]
    /\ writer = 0
    /\ txn = [p \in 1..NumProcs |-> {}]
    /\ lastSet = [u \in Users |-> None]

NotRun == [kind |-> "none"]

IdleParse ==
    /\ upstream = NoResponse
    /\ fetched = NotRun
    /\ parsed = NotRun

\* The module is imported: storage is None and main() has not run.
Init ==
    /\ mainPc = "start"
    /\ storage = "None"
    /\ user_cards = {}
    /\ last = NoRun
    /\ IdleStore
    /\ IdleParse

\* main(): storage = Storage(db_path) creates the table if it is missing;
\* without a token RuntimeError ends the program before any handler exists.
main ==
    /\ mainPc = "start"
    /\ \E token \in {"", "token"} :
        mainPc' = IF token = "" THEN "failed" ELSE "polling"
    /\ storage' = "Storage"
    /\ UNCHANGED <<user_cards, last, storeVars, parseVars>>

Handled(inv, ran) ==
    /\ last' = inv
    /\ user_cards' = ran.rows
    /\ UNCHANGED <<mainPc, storage, storeVars, parseVars>>

OnStart ==
    /\ mainPc = "polling"
    /\ \E hasMessage \in BOOLEAN :
        LET ran == start(hasMessage, user_cards)
        IN  Handled(Invocation("start", hasMessage, NoUser, <<>>, FALSE,
                               NoResponse, user_cards, ran), ran)

OnSetCard ==
    /\ mainPc = "polling"
    /\ \E upd \in Updates, args \in ArgLists :
        LET ran == set_card(upd.hasMessage, args, upd.user, upd.dbFail, storage,
                            user_cards)
        IN  Handled(Invocation("setcard", upd.hasMessage, upd.user, args,
                               upd.dbFail, NoResponse, user_cards, ran), ran)

OnCard ==
    /\ mainPc = "polling"
    /\ \E upd \in Updates :
        LET ran == show_card(upd.hasMessage, upd.user, upd.dbFail, storage,
                             user_cards)
        IN  Handled(Invocation("card", upd.hasMessage, upd.user, <<>>,
                               upd.dbFail, NoResponse, user_cards, ran), ran)

OnBalance ==
    /\ mainPc = "polling"
    /\ \E upd \in Updates, resp \in BotResponses :
        LET ran == balance(upd.hasMessage, upd.user, upd.dbFail, resp, storage,
                           user_cards)
        IN  Handled(Invocation("balance", upd.hasMessage, upd.user, <<>>,
                               upd.dbFail, resp, user_cards, ran), ran)

Next == main \/ OnStart \/ OnSetCard \/ OnCard \/ OnBalance

Spec == Init /\ [][Next]_vars

----------------------------------------------------------------------------
(* Storage under concurrent callers.  Each caller opens its own connection *)
(* (_connect); conn.execute opens a transaction and takes the database's   *)
(* write lock, which SQLite grants to one connection at a time; the        *)
(* transaction's change becomes visible to the others at conn.commit().    *)
(* A caller that cannot get the lock waits, or gives up with               *)
(* OperationalError, and "with conn" then rolls back.                      *)

Procs == 1..NumProcs
StoreCards == {<<"7">>, <<"8">>}

\* faulty variant: read-then-write with no write lock
CanWriteUnlocked(p) == TRUE

\* the write lock is free
CanWrite(p) == writer = 0

InitStore ==
    /\ mainPc = "polling"
    /\ storage = "Storage"
    /\ user_cards = {}
    /\ last = NoRun
    /\ IdleStore
    /\ IdleParse

\* a handler calls storage.set_user_card(u, c)
CallSet(p, u, c) ==
    /\ pc[p] = "idle"
    /\ pc' = [pc EXCEPT ![p] = "execute"]
    /\ call' = [call EXCEPT ![p] = [user |-> u, card |-> c]]
    /\ UNCHANGED <<user_cards, writer, txn, lastSet, botVars, parseVars>>

\* conn.execute(INSERT ... ON CONFLICT ...)
Execute(p) ==
    /\ pc[p] = "execute"
    /\ CanWrite(p)
    /\ writer' = p
    /\ txn' = [txn EXCEPT ![p] = Upsert(user_cards, call[p].user, call[p].card)]
    /\ pc' = [pc EXCEPT ![p] = "commit"]
    /\ UNCHANGED <<user_cards, call, lastSet, botVars, parseVars>>

\* conn.commit(), and set_user_card returns
Commit(p) ==
    /\ pc[p] = "commit"
    /\ user_cards' = txn[p]
    /\ writer' = IF writer = p THEN 0 ELSE writer
    /\ lastSet' = [lastSet EXCEPT ![call[p].user] = call[p].card]
    /\ txn' = [txn EXCEPT ![p] = {}]
    /\ call' = [call EXCEPT ![p] = NoCall]
    /\ pc' = [pc EXCEPT ![p] = "idle"]
    /\ UNCHANGED <<botVars, parseVars>>

\* execute or commit raises sqlite3.OperationalError: rollback, and the
\* exception leaves set_user_card
Fail(p) ==
    /\ pc[p] \in {"execute", "commit"}
    /\ writer' = IF writer = p THEN 0 ELSE writer
    /\ txn' = [txn EXCEPT ![p] = {}]
    /\ call' = [call EXCEPT ![p] = NoCall]
    /\ pc' = [pc EXCEPT ![p] = "idle"]
    /\ UNCHANGED <<user_cards, lastSet, botVars, parseVars>>

NextStore ==
    \E p \in Procs :
        \/ \E u \in Users, c \in StoreCards : CallSet(p, u, c)
        \/ Execute(p)
        \/ Commit(p)
        \/ Fail(p)

SpecStore == InitStore /\ [][NextStore]_vars

----------------------------------------------------------------------------
(* The fetcher and the parser as functions of the upstream's answer *)

ErrorVals == {Absent, JNull, JStr(""), JInt(0), JStr("card not found")}
MessageVals == {Absent, JStr(""), JStr("try later")}
BalanceVals ==
    {Absent, JNull, JInt(12345), JInt(0), JInt(0 - 5), JBool(TRUE), JStr("n/a"),
     JFloat("inf"), JFloat("nan")}
ActiveVals == {Absent, JNull, JBool(TRUE), JBool(FALSE)}
BlockedVals == {Absent, JNull, JBool(FALSE)}
TripsVals == {Absent, JNull, JInt(7), JInt(0)}

FieldPairs ==
    { {<<"balance", b>>, <<"cardactive", a>>, <<"cardblocked", k>>,
       <<"numoftrips", t>>} :
        b \in BalanceVals, a \in ActiveVals, k \in BlockedVals, t \in TripsVals }

\* flat payloads: the fields at the top level, "card" missing or no object
FlatPairs == {f \cup {<<"card", c>>} : f \in FieldPairs, c \in {Absent, JStr("x")}}

\* nested payloads: the fields inside "card", with or without a balance
\* beside it at the top level
NestedPairs ==
    {{<<"card", DictOf(f)>>, <<"balance", b>>} :
        f \in FieldPairs, b \in {Absent, JInt(1)}}

Payloads ==
    {JNull, JInt(5), JStr("x"), JBool(TRUE), JList(<<>>), JList(<<"1">>)}
        \cup { DictOf(f \cup {<<"error", e>>, <<"message", m>>}) :
                 f \in FlatPairs \cup NestedPairs, e \in ErrorVals,
                 m \in MessageVals }

InitParse ==
    /\ mainPc = "polling"
    /\ storage = "Storage"
    /\ user_cards = {}
    /\ last = NoRun
    /\ IdleStore
    /\ upstream \in {Ok200(v) : v \in Payloads}
    /\ fetched = NotRun
    /\ parsed = NotRun

Apply ==
    /\ fetched = NotRun
    /\ fetched' = fetch_card_status(upstream)
    /\ parsed' = parse_status_response(upstream.value)
    /\ UNCHANGED <<upstream, user_cards, botVars, storeVars>>

NextParse == Apply

SpecParse == InitParse /\ [][NextParse]_vars

----------------------------------------------------------------------------
(* Vocabulary of the claims *)

Unique(rows) == \A u \in Users : Cardinality({r \in rows : r.user_id = u}) <= 1

\* the concatenated arguments are empty or hold a character that is no digit
HasNonDigit(args) ==
    Join(args) = <<>> \/ \E i \in 1..Len(Join(args)) : Join(args)[i] \notin DigitChars

Replies(inv) == {i \in 1..Len(inv.events) : inv.events[i][1] = "reply"}
Requests(inv) == {i \in 1..Len(inv.events) : inv.events[i][1] = "GET"}

\* the fixed part of the first line of a reply
Label(event) == event[2][1][1]

StoredBefore(inv) == get_user_card(inv.before, inv.user)

\* the update is a message of an identified user
FromUser(inv) == inv.hasMessage /\ inv.user \in Users

----------------------------------------------------------------------------
\* C1: after any sequence of completed set_user_card calls the table holds at
\* most one row per user_id and get_user_card(u) returns the card of the most
\* recent completed set_user_card(u, c): a second set replaces the first, and
\* the result is absent only for a user no call has completed for.  (A call
\* that raises has rolled back and counts as not made.)
C1_SetThenGet ==
    /\ Unique(user_cards)
    /\ \A p \in Procs : Unique(txn[p])
    /\ \A u \in Users : get_user_card(user_cards, u) = lastSet[u]

\* a second set for a user has executed against the row of the first
C1_Witness ==
    \E p \in Procs :
        /\ pc[p] = "commit"
        /\ get_user_card(user_cards, call[p].user) = <<"7">>
        /\ get_user_card(txn[p], call[p].user) = <<"8">>
        /\ lastSet[call[p].user] = <<"7">>

----------------------------------------------------------------------------
\* C2 as stated: every /setcard whose concatenated arguments are empty or
\* hold a non-digit is answered with the usage or the digits-only message and
\* leaves the table unchanged, and every stored card_number is a non-empty
\* string of digits.
C2_Original ==
    /\ (last.cmd = "setcard" /\ HasNonDigit(last.args)) =>
          /\ last.events \in {<<Reply(UsageText)>>, <<Reply(DigitsOnlyText)>>}
          /\ user_cards = last.before
    /\ \A r \in user_cards :
          /\ r.card_number # <<>>
          /\ \A i \in 1..Len(r.card_number) : r.card_number[i] \in DigitChars

\* C2 as amended: the rejection is sent when the update carries a message;
\* an update without one (an edited message) is dropped without a reply.  In
\* both cases the table stays as it was, and every stored card_number is a
\* non-empty string of characters that str.isdigit accepts.
C2_Amended ==
    /\ (last.cmd = "setcard" /\ HasNonDigit(last.args)) =>
          /\ last.hasMessage =>
                last.events \in {<<Reply(UsageText)>>, <<Reply(DigitsOnlyText)>>}
          /\ ~last.hasMessage => last.events = <<>>
          /\ last.raised = NoException
          /\ user_cards = last.before
    /\ \A r \in user_cards :
          /\ r.card_number # <<>>
          /\ \A i \in 1..Len(r.card_number) : r.card_number[i] \in DigitChars

\* a /setcard with a letter among its arguments was rejected over a table
\* that holds a card
C2_Witness ==
    /\ last.cmd = "setcard"
    /\ last.hasMessage
    /\ last.args = <<<<"7", "sup2">>, <<"4", "a">>>>
    /\ last.events = <<Reply(DigitsOnlyText)>>
    /\ user_cards # {}

----------------------------------------------------------------------------
\* C3: a /balance message of a user who has no stored card is answered with
\* the card-not-saved prompt and nothing else (no acknowledgment, no
\* request), and every request carries the card stored for the requesting
\* user.
C3_Claim ==
    /\ (last.cmd = "balance" /\ FromUser(last) /\ StoredBefore(last) = None) =>
          last.events = <<Reply(NotSavedText)>>
    /\ \A i \in Requests(last) :
          last.events[i] = HttpGet(StoredBefore(last))

\* The part of C3 that the code keeps: without a stored card no request and
\* no acknowledgment, and requests carry the requester's stored card.
NoRequestWithoutCard ==
    /\ (last.cmd = "balance" /\ (last.user = NoUser \/ StoredBefore(last) = None)) =>
          /\ Requests(last) = {}
          /\ \A i \in Replies(last) : last.events[i] # Reply(QueryingText)
    /\ \A i \in Requests(last) :
          /\ last.user \in Users
          /\ last.events[i] = HttpGet(StoredBefore(last))

----------------------------------------------------------------------------
\* C4 as stated: a decoded mapping with an "error" or a "message" key makes
\* fetch_card_status return, whatever the value, the one-line report
\* "Oshibka API: <value>" of "error" if that key is there and of "message"
\* otherwise.
C4_Original ==
    LET d == upstream.value IN
    (fetched # NotRun /\ d.type = "dict"
        /\ ("error" \in DOMAIN d.val \/ "message" \in DOMAIN d.val)) =>
        fetched = Return(<<<<ApiErrorLabel,
                             Str(IF "error" \in DOMAIN d.val
                                 THEN d.val["error"] ELSE d.val["message"])>>>>)

\* C4 as amended: the short cut is taken for a truthy value only (not null,
\* false, 0 or ""): the report carries "error" if it is truthy and otherwise
\* the truthy "message"; when neither is truthy the mapping goes to
\* parse_status_response as if the keys were not there.
C4_Amended ==
    LET d == upstream.value
        error == Get(d, "error")
        message == Get(d, "message")
    IN  (fetched # NotRun /\ d.type = "dict") =>
            /\ Truthy(error) =>
                  fetched = Return(<<<<ApiErrorLabel, Str(error)>>>>)
            /\ (~Truthy(error) /\ Truthy(message)) =>
                  fetched = Return(<<<<ApiErrorLabel, Str(message)>>>>)
            /\ (~Truthy(error) /\ ~Truthy(message)) => fetched = parsed

\* both keys are there with truthy values and "error" was reported
C4_Witness ==
    /\ fetched = Return(<<<<ApiErrorLabel, "card not found">>>>)
    /\ upstream.value.type = "dict"
    /\ Get(upstream.value, "message") = JStr("try later")

----------------------------------------------------------------------------
\* the failure categories of C5, by what the upstream did
Transport(resp) == ~resp.ok
Non2xx(resp) == resp.ok /\ (resp.status < 200 \/ resp.status > 299)
Malformed(resp) ==
    resp.ok /\ ~Non2xx(resp) /\ (~resp.decodes \/ resp.value.type # "dict")

\* C5: once /balance has sent its request, a transport failure is reported
\* as "Oshibka zaprosa: ", a non-2xx status as "Oshibka HTTP: " and an
\* undecodable or non-object body as "Oshibka formata otveta: ".
C5_Claim ==
    (last.cmd = "balance" /\ Requests(last) # {}) =>
        /\ Len(last.events) = 3
        /\ Transport(last.resp) => Label(last.events[3]) = RequestErrorLabel
        /\ Non2xx(last.resp) => Label(last.events[3]) = HttpErrorLabel
        /\ Malformed(last.resp) => Label(last.events[3]) = FormatErrorLabel

----------------------------------------------------------------------------
\* C6: when /setcard, /card or /balance needs the storage (a message of an
\* identified user, valid arguments) and the storage is unavailable (the
\* handle is None or the database call fails), the handler ends normally
\* having sent exactly the storage-problem reply and changed nothing.
C6_Claim ==
    (/\ last.cmd \in {"setcard", "card", "balance"}
     /\ FromUser(last)
     /\ last.cmd = "setcard" => ~HasNonDigit(last.args)
     /\ (last.dbFail \/ storage = "None")) =>
        /\ last.events = <<Reply(NoStorageText)>>
        /\ last.raised = NoException
        /\ user_cards = last.before

----------------------------------------------------------------------------
\* C7: under any interleaving of set_user_card calls the table, and every
\* open transaction's view of it, holds at most one row per user_id; an open
\* transaction carries every other user's committed row unchanged, so its
\* commit loses no other call's write; and each user's stored card is the
\* argument of the latest completed call for that user.
C7_ConcurrentUpsert ==
    /\ Unique(user_cards)
    /\ \A p \in Procs : pc[p] = "commit" =>
          /\ Unique(txn[p])
          /\ {r \in txn[p] : r.user_id # call[p].user}
                = {r \in user_cards : r.user_id # call[p].user}
          /\ get_user_card(txn[p], call[p].user) = call[p].card
    /\ \A u \in Users :
          /\ lastSet[u] # None => get_user_card(user_cards, u) \in StoreCards
          /\ get_user_card(user_cards, u) = lastSet[u]

\* two calls are in flight at once, for different users, one holding the
\* write lock and the other waiting for it, over a table with a row
C7_Witness ==
    \E p, q \in Procs :
        /\ pc[p] = "commit"
        /\ pc[q] = "execute"
        /\ call[p].user # call[q].user
        /\ get_user_card(user_cards, call[q].user) # None

----------------------------------------------------------------------------
\* the record the report is made from: the nested "card" mapping if there is
\* one, otherwise the top-level mapping
Selected(d) ==
    IF "card" \in DOMAIN d.val /\ d.val["card"].type = "dict"
    THEN d.val["card"] ELSE d

FieldLabel(k) ==
    CASE k = "balance" -> BalanceLabel
      [] k = "cardactive" -> ActiveLabel
      [] k = "cardblocked" -> BlockedLabel
      [] k = "numoftrips" -> TripsLabel

HasLine(lines, label) == \E i \in 1..Len(lines) : lines[i][1] = label

----------------------------------------------------------------------------
\* C9: a /balance message of an identified user whose stored card was read
\* sends the acknowledgment, then one request with that card, then one final
\* reply, and returns: the final reply is the fetched report unchanged, or
\* one of the three error messages when the fetch raised.
C9_Claim ==
    (last.cmd = "balance" /\ FromUser(last) /\ ~last.dbFail
        /\ StoredBefore(last) # None) =>
        /\ last.raised = NoException
        /\ Len(last.events) = 3
        /\ last.events[1] = Reply(QueryingText)
        /\ last.events[2] = HttpGet(StoredBefore(last))
        /\ last.events[3][1] = "reply"
        /\ LET r == fetch_card_status(last.resp)
           IN  IF r.kind = "return"
               THEN last.events[3] = Reply(r.value)
               ELSE Label(last.events[3])
                        \in {HttpErrorLabel, RequestErrorLabel, FormatErrorLabel}

----------------------------------------------------------------------------
\* C10: the table changes only in a /setcard whose arguments are all digits,
\* and then only in the row of the user who sent it; no handler removes a
\* row (a user who had a card before an invocation has one after it).
C10_Frame ==
    /\ user_cards # last.before =>
          /\ last.cmd = "setcard"
          /\ ~HasNonDigit(last.args)
          /\ last.user \in Users
          /\ {r \in user_cards : r.user_id # last.user}
                = {r \in last.before : r.user_id # last.user}
    /\ \A u \in Users :
          get_user_card(last.before, u) # None => get_user_card(user_cards, u) # None

\* a /setcard replaced the sender's card while another user's card stayed
C10_Witness ==
    /\ last.cmd = "setcard"
    /\ last.user = 1
    /\ get_user_card(last.before, 1) = <<"7", "sup2">>
    /\ get_user_card(user_cards, 1) = <<"7", "sup2", "7", "sup2">>
    /\ get_user_card(last.before, 2) # None
    /\ get_user_card(user_cards, 2) = get_user_card(last.before, 2)

====
